---- MODULE Spec2Model ----
(***************************************************************************)
(* A model of sync.py: the spreadsheet sync job.                           *)
(*                                                                         *)
(* Text is a sequence of characters, one string per character.  The        *)
(* Cyrillic letters of the source are written as tokens: "~x" is the       *)
(* lower-case letter transliterated x, "^x" its upper-case form.           *)
(* A cell is a tagged value: Str(text) or Num(n), as the Sheets API        *)
(* returns strings and numbers.  Indices into rows and grids are 0-based   *)
(* as in the source, with -1 for "absent".                                 *)
(***************************************************************************)
EXTENDS Integers, Sequences, FiniteSets, TLC

VARIABLES
    \* ---- the parser run (build_db_result) ----
    data,          \* source_values: the raw grid
    header,        \* the info dict of find_header_row_and_cols
    bpc,           \* position in build_db_result
    i,             \* loop index of line 228 (0-based row index)
    current_date,  \* None or the last date cell
    row_owner,     \* None, or the owner of row i
    result,        \* the table being built
    err,           \* the error string of line 212, or None
    \* ---- the invocations of main() ----
    lock,          \* LOCK_FILE: NoLock, or the pid written into it
    dest,          \* target spreadsheet: title -> Absent or grid
    source,        \* source spreadsheet: sheet name -> grid
    settings,      \* Settings!A2:A as read_values returns it
    pc,            \* position of each invocation
    dt,            \* now_local() of each invocation: [hour, month]
    names,         \* sheets_to_sync
    idx,           \* position of the for loop of line 338 (1-based)
    built,         \* sync_one's result table
    rc,            \* main()'s return value
    \* ---- history, for stating the claims ----
    calls,         \* the remote calls each invocation has made
    raised,        \* the exception an invocation raised, if any
    evaluated,     \* loop positions should_sync_sheet was evaluated at
    skipped,       \* loop positions sync_one skipped with [SKIP]
    pending,       \* titles an invocation cleared and has not rewritten
    dest0          \* the destination as it was when the run began

bvars == <<data, header, bpc, i, current_date, row_owner, result, err>>
mvars == <<lock, dest, source, settings, pc, dt, names, idx, built, rc>>
hvars == <<calls, raised, evaluated, skipped, pending, dest0>>
vars == <<bvars, mvars, hvars>>

None == [t |-> "none", v |-> 0]
Str(s) == [t |-> "str", v |-> s]
Num(n) == [t |-> "num", v |-> n]
IsStr(x) == x.t = "str"
IsNum(x) == x.t = "num"

(***************************************************************************)
(* Text primitives: str.strip, str.lower, substring test, str(int).        *)
(***************************************************************************)
Whitespace == {" ", "\t", "\n"}
Digits == {"0", "1", "2", "3", "4", "5", "6", "7", "8", "9"}
DigitSeq == <<"0", "1", "2", "3", "4", "5", "6", "7", "8", "9">>

UpperChars == <<"A", "B", "C", "D", "E", "F", "G", "H", "I", "J", "K", "L", "M",
                "N", "O", "P", "Q", "R", "S", "T", "U", "V", "W", "X", "Y", "Z",
                "^a", "^v", "^g", "^d", "^e", "^zh", "^z", "^i", "^k", "^l",
                "^m", "^n", "^o", "^p", "^r", "^s", "^t", "^u", "^f", "^h", "^y">>
LowerChars == <<"a", "b", "c", "d", "e", "f", "g", "h", "i", "j", "k", "l", "m",
                "n", "o", "p", "q", "r", "s", "t", "u", "v", "w", "x", "y", "z",
                "~a", "~v", "~g", "~d", "~e", "~zh", "~z", "~i", "~k", "~l",
                "~m", "~n", "~o", "~p", "~r", "~s", "~t", "~u", "~f", "~h", "~y">>

\* str.lower() on one character, as a table
LowerOf ==
    [c \in {UpperChars[k] : k \in 1..Len(UpperChars)} |->
        LowerChars[CHOOSE k \in 1..Len(UpperChars) : UpperChars[k] = c]]

LowerChar(c) == IF c \in DOMAIN LowerOf THEN LowerOf[c] ELSE c

Lower(s) == [k \in 1..Len(s) |-> LowerChar(s[k])]

RECURSIVE LStrip(_)
LStrip(s) ==
    IF s # <<>> /\ Head(s) \in Whitespace THEN LStrip(Tail(s)) ELSE s

RECURSIVE RStrip(_)
RStrip(s) ==
    IF s # <<>> /\ s[Len(s)] \in Whitespace
    THEN RStrip(SubSeq(s, 1, Len(s) - 1))
    ELSE s

Strip(s) == RStrip(LStrip(s))

\* needle in hay
Contains(hay, needle) ==
    \E k \in 0..(Len(hay) - Len(needle)) :
        SubSeq(hay, k + 1, k + Len(needle)) = needle

HasChar(s, c) == \E k \in 1..Len(s) : s[k] = c
HasDigit(s) == \E k \in 1..Len(s) : s[k] \in Digits

RECURSIVE NatText(_)
NatText(n) ==
    IF n < 10 THEN <<DigitSeq[n + 1]>>
    ELSE NatText(n \div 10) \o <<DigitSeq[(n % 10) + 1]>>

\* str(x) of a cell
PyStr(x) == IF IsNum(x) THEN NatText(x.v) ELSE x.v

\* Python 3 division by a power of ten is not needed: a parsed number is
\* kept as mantissa m and number of fraction digits e (m / 10^e).
DigitVal(c) == CHOOSE d \in 0..9 : DigitSeq[d + 1] = c

RECURSIVE DigitsVal(_)
DigitsVal(s) ==
    IF s = <<>> THEN 0
    ELSE DigitsVal(SubSeq(s, 1, Len(s) - 1)) * 10 + DigitVal(s[Len(s)])

(***************************************************************************)
(* Cell classifiers (lines 52-72).                                         *)
(***************************************************************************)
\* re.match(r"^\d{2}\.\d{2}\.\d{4}$", s)
MatchesDatePattern(s) ==
    /\ Len(s) = 10
    /\ \A k \in {1, 2, 4, 5, 7, 8, 9, 10} : s[k] \in Digits
    /\ s[3] = "." /\ s[6] = "."

is_valid_date_cell(v) ==
    IF IsStr(v) THEN MatchesDatePattern(Strip(v.v)) ELSE FALSE

W_itogo == <<"~i", "~t", "~o", "~g", "~o">>
W_sotrudniki == <<"~s", "~o", "~t", "~r", "~u", "~d", "~n", "~i", "~k", "~i">>
W_data == <<"~d", "~a", "~t", "~a">>
W_menedzher == <<"~m", "~e", "~n", "~e", "~d", "~zh", "~e", "~r">>
W_fio == <<"~f", ".", "~i", ".", "~o">>
W_oferty == <<"~o", "~f", "~e", "~r", "~t", "~y">>

forbidden ==
    {W_itogo, W_sotrudniki, <<"s">>, <<"m">>, W_data, W_menedzher, W_fio, W_oferty}

\* mutant: the .lower() of line 59 forgotten
is_technical_word_NoLower(val) ==
    LET v == Strip(PyStr(val))
    IN  v \in forbidden \/ v = <<>>

is_technical_word(val) ==
    LET v == Strip(Lower(PyStr(val)))
    IN  v \in forbidden \/ v = <<>>

\* float(text): optional sign, digits with at most one ".", surrounding
\* whitespace ignored.  The result is the number m / 10^e.  (Exponents,
\* "inf", "nan" and "_" are outside the alphabet of the modelled cells.)
Zero == [m |-> 0, e |-> 0]

ParseFloat(text) ==
    LET t == Strip(text)
        signed == t # <<>> /\ t[1] \in {"+", "-"}
        body == IF signed THEN Tail(t) ELSE t
        dots == {k \in 1..Len(body) : body[k] = "."}
        ok == /\ \A k \in 1..Len(body) : body[k] \in Digits \cup {"."}
              /\ Cardinality(dots) <= 1
              /\ \E k \in 1..Len(body) : body[k] \in Digits
        digs == SelectSeq(body, LAMBDA c : c \in Digits)
        frac == IF dots = {} THEN 0 ELSE Len(body) - (CHOOSE k \in dots : TRUE)
        mag == DigitsVal(digs)
    IN  [ok |-> ok,
         val |-> IF ok THEN [m |-> IF signed /\ t[1] = "-" THEN 0 - mag ELSE mag,
                             e |-> frac]
                 ELSE Zero]

\* str.replace(",", ".")
CommaToDot(s) == [k \in 1..Len(s) |-> IF s[k] = "," THEN "." ELSE s[k]]

safe_num(x) ==
    IF x = Str(<<>>) \/ x = None THEN Zero
    ELSE IF IsNum(x) THEN [m |-> x.v, e |-> 0]
    ELSE LET f == ParseFloat(CommaToDot(PyStr(x)))
         IN  IF f.ok THEN f.val ELSE Zero

Positive(n) == n.m > 0

(***************************************************************************)
(* Header locator (lines 152-193).                                         *)
(***************************************************************************)
\* a row's cell at a 0-based column
At(row, c) == row[c + 1]

P_total == <<"~i", "~t", "~o", "~g", "~o", " ", "~o", "~f", "~e", "~r", "~t">>
P_zvonobot == <<"z", "v", "o", "n", "o", "b", "o", "t">>
P_total_warm == <<"~t", "~o", "~t", "~a", "~l", " ", "~t", "~e", "~p", "~l", "~y", "~h">>
P_warm_leads == <<"~t", "~e", "~p", "~l", "~y", "~h", " ", "~l", "~i", "~d", "~o", "~v">>
P_offers_from_warm ==
    <<"~o", "~f", "~f", "~e", "~r", "~t", " ", "~i", "~z", " ",
      "~t", "~e", "~p", "~l", "~y", "~h">>
P_from_warm == <<"~i", "~z", " ", "~t", "~e", "~p", "~l", "~y", "~h">>
P_quanta == <<"~o", "~t", " ", "q", "u", "a", "n", "t", "a">>
P_conv == <<"~k", "~o", "~n", "~v", "~e", "~r", "~s", "~i">>

EmptyInfo ==
    [found |-> FALSE, rowIdx |-> -1, managerCol |-> -1, timeCols |-> <<>>,
     totalCol |-> -1, warmCol |-> -1, warmOffCol |-> -1, convCol |-> -1]

\* line 172
IsTimeHeader(val) == HasChar(val, ":") /\ HasChar(val, "-") /\ HasDigit(val)

\* lines 170-185: one cell of a scanned row
ScanCell(info, c, cell) ==
    LET val == Lower(PyStr(cell))
        a == IF IsTimeHeader(val)
             THEN [info EXCEPT !.timeCols = Append(@, c)] ELSE info
        b == IF Contains(val, P_total) THEN [a EXCEPT !.totalCol = c] ELSE a
        d == IF \/ Contains(val, P_zvonobot)
                \/ Contains(val, P_total_warm)
                \/ Contains(val, P_warm_leads)
             THEN [b EXCEPT !.warmCol = c] ELSE b
        e == IF \/ Contains(val, P_offers_from_warm)
                \/ Contains(val, P_from_warm)
                \/ Contains(val, P_quanta)
             THEN [d EXCEPT !.warmOffCol = c] ELSE d
    IN  IF Contains(val, P_conv) THEN [e EXCEPT !.convCol = c] ELSE e

\* lines 169-185: the cells c.. of a row
RECURSIVE ScanRow(_, _, _)
ScanRow(info, row, c) ==
    IF c >= Len(row) THEN info
    ELSE ScanRow(ScanCell(info, c, At(row, c)), row, c + 1)

HeaderScanRows == 10

Min(a, b) == IF a < b THEN a ELSE b
Max(a, b) == IF a > b THEN a ELSE b

\* mutant: every row of the grid is scanned
RECURSIVE ScanFrom_NoLimit(_, _, _)
ScanFrom_NoLimit(info, grid, r) ==
    IF r >= Len(grid) THEN info
    ELSE LET before == Len(info.timeCols)
             after == ScanRow(info, At(grid, r), 0)
             has_time == Len(after.timeCols) > before
             first_time_col == after.timeCols[before + 1]
         IN  IF has_time
             THEN [after EXCEPT !.found = TRUE,
                                !.rowIdx = r,
                                !.managerCol = Max(0, first_time_col - 1)]
             ELSE ScanFrom_NoLimit(after, grid, r + 1)

\* mutant: the manager column is the one left of the first time column,
\* also when there is none
RECURSIVE ScanFrom_NoClamp(_, _, _)
ScanFrom_NoClamp(info, grid, r) ==
    IF r >= Min(HeaderScanRows, Len(grid)) THEN info
    ELSE LET before == Len(info.timeCols)
             after == ScanRow(info, At(grid, r), 0)
             has_time == Len(after.timeCols) > before
             first_time_col == after.timeCols[before + 1]
         IN  IF has_time
             THEN [after EXCEPT !.found = TRUE,
                                !.rowIdx = r,
                                !.managerCol = first_time_col - 1]
             ELSE ScanFrom_NoClamp(after, grid, r + 1)

\* lines 164-191: rows r.. of the grid
RECURSIVE ScanFrom(_, _, _)
ScanFrom(info, grid, r) ==
    IF r >= Min(HeaderScanRows, Len(grid)) THEN info
    ELSE LET before == Len(info.timeCols)
             after == ScanRow(info, At(grid, r), 0)
             has_time == Len(after.timeCols) > before
             first_time_col == after.timeCols[before + 1]
         IN  IF has_time
             THEN [after EXCEPT !.found = TRUE,
                                !.rowIdx = r,
                                !.managerCol = Max(0, first_time_col - 1)]
             ELSE ScanFrom(after, grid, r + 1)

find_header_row_and_cols(grid) == ScanFrom(EmptyInfo, grid, 0)

(***************************************************************************)
(* Row helpers (lines 196-205).                                            *)
(***************************************************************************)
has_data(row, info) ==
    LET total_val == IF info.totalCol > -1 /\ info.totalCol < Len(row)
                     THEN safe_num(At(row, info.totalCol)) ELSE Zero
        warm_val == IF info.warmCol > -1 /\ info.warmCol < Len(row)
                    THEN safe_num(At(row, info.warmCol)) ELSE Zero
    IN  Positive(total_val) \/ Positive(warm_val)

get_val(row, c) ==
    IF c <= -1 \/ c >= Len(row) THEN Num(0)
    ELSE IF At(row, c) = Str(<<>>) \/ At(row, c) = None THEN Num(0)
    ELSE At(row, c)

(***************************************************************************)
(* Row classifier and table builder (lines 208-261).                       *)
(***************************************************************************)
T_DEPARTMENT_TOTAL ==
    <<"D", "E", "P", "A", "R", "T", "M", "E", "N", "T", "_", "T", "O", "T", "A", "L">>
T_ALL_DAY == <<"A", "L", "L", "_", "D", "A", "Y">>

\* lines 214-223
ResultHeader ==
    << Str(<<"D", "a", "t", "e">>),
       Str(<<"M", "a", "n", "a", "g", "e", "r">>),
       Str(<<"T", "i", "m", "e", "_", "I", "n", "t", "e", "r", "v", "a", "l">>),
       Str(<<"O", "f", "f", "e", "r", "s">>),
       Str(<<"T", "o", "t", "a", "l", "_", "D", "a", "y", "_", "O", "f", "f", "e", "r", "s">>),
       Str(<<"W", "a", "r", "m", "_", "L", "e", "a", "d", "s", "_", "G", "i", "v", "e", "n">>),
       Str(<<"O", "f", "f", "e", "r", "s", "_", "F", "r", "o", "m", "_", "W", "a", "r", "m">>),
       Str(<<"C", "o", "n", "v", "e", "r", "s", "i", "o", "n", "_", "R", "a", "t", "e">>) >>

\* line 212: the message, one token (its text is never inspected)
NoHeaderError == Str(<<"no time headers found in the sheet">>)

\* line 230
ManagerCell(row, manager_col) ==
    IF manager_col < Len(row) THEN At(row, manager_col) ELSE Str(<<>>)

\* mutant: only the first date cell is taken
DateAfter_KeepFirst(cur, cell_val) ==
    IF is_valid_date_cell(cell_val) /\ cur = None THEN cell_val ELSE cur

\* lines 231-234
DateAfter(cur, cell_val) ==
    IF is_valid_date_cell(cell_val) THEN cell_val ELSE cur

\* truth value of a None-or-text variable
Truthy(x) == x # None /\ x # Str(<<>>)

\* mutant: a blank row with data is a department total also before any date
RowOwner_BlankNoDate(row, info, cur) ==
    LET cell_val == ManagerCell(row, info.managerCol)
        is_date == is_valid_date_cell(cell_val)
        text == Strip(PyStr(cell_val))
    IN  IF is_date /\ has_data(row, info) THEN Str(T_DEPARTMENT_TOTAL)
        ELSE IF text = <<>> /\ has_data(row, info)
             THEN Str(T_DEPARTMENT_TOTAL)
        ELSE IF text # <<>> /\ ~is_date /\ ~is_technical_word(cell_val)
             THEN Str(text)
        ELSE None

\* lines 236-243; cur is current_date after line 234
RowOwner(row, info, cur) ==
    LET cell_val == ManagerCell(row, info.managerCol)
        is_date == is_valid_date_cell(cell_val)
        text == Strip(PyStr(cell_val))
    IN  IF is_date /\ has_data(row, info) THEN Str(T_DEPARTMENT_TOTAL)
        ELSE IF text = <<>> /\ Truthy(cur) /\ has_data(row, info)
             THEN Str(T_DEPARTMENT_TOTAL)
        ELSE IF text # <<>> /\ ~is_date /\ ~is_technical_word(cell_val)
             THEN Str(text)
        ELSE None

\* mutant: the department total is repeated for every time column
ColumnRecords_NoCollapse(grid, info, row, owner, cur, time_col_idx) ==
    LET offers == IF time_col_idx < Len(row)
                     /\ At(row, time_col_idx) # Str(<<>>)
                  THEN At(row, time_col_idx) ELSE Num(0)
        label == IF owner = Str(T_DEPARTMENT_TOTAL) THEN Str(T_ALL_DAY)
                 ELSE Str(PyStr(At(At(grid, info.rowIdx), time_col_idx)))
    IN  << <<cur, owner, label, offers,
             get_val(row, info.totalCol), get_val(row, info.warmCol),
             get_val(row, info.warmOffCol), get_val(row, info.convCol)>> >>

\* mutant: Offers is read from the first time column for every record
ColumnRecords_FirstSlot(grid, info, row, owner, cur, time_col_idx) ==
    LET first == info.timeCols[1]
        offers == IF first < Len(row) /\ At(row, first) # Str(<<>>)
                  THEN At(row, first) ELSE Num(0)
        label == Str(PyStr(At(At(grid, info.rowIdx), time_col_idx)))
        rest == <<get_val(row, info.totalCol), get_val(row, info.warmCol),
                  get_val(row, info.warmOffCol), get_val(row, info.convCol)>>
    IN  IF owner = Str(T_DEPARTMENT_TOTAL)
        THEN IF time_col_idx = first
             THEN << <<cur, owner, Str(T_ALL_DAY), offers>> \o rest >>
             ELSE <<>>
        ELSE << <<cur, owner, label, offers>> \o rest >>

\* lines 247-259: what one time column adds to result
ColumnRecords(grid, info, row, owner, cur, time_col_idx) ==
    LET hrow == At(grid, info.rowIdx)
        time_label == IF time_col_idx < Len(hrow)
                      THEN At(hrow, time_col_idx) ELSE Str(<<>>)
        offers == IF time_col_idx < Len(row)
                     /\ At(row, time_col_idx) # Str(<<>>)
                     /\ At(row, time_col_idx) # None
                  THEN At(row, time_col_idx) ELSE Num(0)
        total == get_val(row, info.totalCol)
        warm_given == get_val(row, info.warmCol)
        warm_off == get_val(row, info.warmOffCol)
        conv == get_val(row, info.convCol)
    IN  IF owner = Str(T_DEPARTMENT_TOTAL)
        THEN IF time_col_idx = info.timeCols[1]
             THEN << <<cur, owner, Str(T_ALL_DAY), offers,
                       total, warm_given, warm_off, conv>> >>
             ELSE <<>>
        ELSE << <<cur, owner, Str(PyStr(time_label)), offers,
                  total, warm_given, warm_off, conv>> >>

\* line 246: the time columns k.. of one row
RECURSIVE RecordsFrom(_, _, _, _, _, _)
RecordsFrom(grid, info, row, owner, cur, k) ==
    IF k > Len(info.timeCols) THEN <<>>
    ELSE ColumnRecords(grid, info, row, owner, cur, info.timeCols[k])
         \o RecordsFrom(grid, info, row, owner, cur, k + 1)

\* lines 245-259: what one row adds to result
RowRecords(grid, info, row, owner, cur) ==
    IF Truthy(owner) /\ Truthy(cur)
    THEN RecordsFrom(grid, info, row, owner, cur, 1)
    ELSE <<>>

\* lines 228-259 as a function: the rows r.. of the grid
RECURSIVE BuildRows(_, _, _, _, _)
BuildRows(grid, info, r, cur, acc) ==
    IF r >= Len(grid) THEN acc
    ELSE LET row == At(grid, r)
             cur2 == DateAfter(cur, ManagerCell(row, info.managerCol))
             owner == RowOwner(row, info, cur2)
         IN  BuildRows(grid, info, r + 1, cur2,
                       acc \o RowRecords(grid, info, row, owner, cur2))

\* build_db_result as a function: [result, err]
build_db_result(source_values) ==
    LET info == find_header_row_and_cols(source_values)
    IN  IF ~info.found THEN [result |-> None, err |-> NoHeaderError]
        ELSE [result |-> BuildRows(source_values, info, info.rowIdx + 1,
                                   None, <<ResultHeader>>),
              err |-> None]

(***************************************************************************)
(* build_db_result step by step: one action per loop iteration.            *)
(***************************************************************************)
\* lines 209-226
BuildStart ==
    /\ bpc = "start"
    /\ header' = find_header_row_and_cols(data)
    /\ IF ~header'.found
       THEN /\ result' = None
            /\ err' = NoHeaderError
            /\ bpc' = "done"
            /\ UNCHANGED i
       ELSE /\ result' = <<ResultHeader>>
            /\ err' = None
            /\ bpc' = "rows"
            /\ i' = header'.rowIdx + 1
    /\ current_date' = None
    /\ row_owner' = None
    /\ UNCHANGED <<data, mvars, hvars>>

\* lines 228-259: the iteration for row i
BuildRow ==
    /\ bpc = "rows"
    /\ i < Len(data)
    /\ LET row == At(data, i)
       IN  /\ current_date' = DateAfter(current_date, ManagerCell(row, header.managerCol))
           /\ row_owner' = RowOwner(row, header, current_date')
           /\ result' = result \o RowRecords(data, header, row, row_owner', current_date')
    /\ i' = i + 1
    /\ UNCHANGED <<data, header, bpc, err, mvars, hvars>>

\* line 261
BuildReturn ==
    /\ bpc = "rows"
    /\ i >= Len(data)
    /\ bpc' = "done"
    /\ UNCHANGED <<data, header, i, current_date, row_owner, result, err, mvars, hvars>>

(***************************************************************************)
(* Input grids of the parser run.                                          *)
(***************************************************************************)
Blank == Str(<<>>)
C_date1 == Str(<<"0", "5", ".", "0", "1", ".", "2", "0", "2", "4">>)
C_date2 == Str(<<" ", "0", "6", ".", "0", "1", ".", "2", "0", "2", "4", " ">>)
C_baddate == Str(<<"5", ".", "1", ".", "2", "0", "2", "4">>)
C_ivan == Str(<<"I", "v", "a", "n">>)
C_ann == Str(<<" ", "A", "n", "n", " ">>)
C_space == Str(<<" ">>)
C_tech_s == Str(<<" ", "S", " ">>)
C_tech_itogo == Str(<<"^i", "~t", "~o", "~g", "~o">>)
C_sentinel == Str(T_DEPARTMENT_TOTAL)
C_comma == Str(<<"1", "2", ",", "5">>)
C_abc == Str(<<"a", "b", "c">>)
C_time1 == Str(<<"1", "0", ":", "0", "0", "-", "1", "1", ":", "0", "0">>)
C_time2 == Str(<<"1", "1", ":", "0", "0", "-", "1", "2", ":", "0", "0">>)
C_no == Str(<<"#">>)
C_fio == Str(<<"^f", "^i", "^o">>)
C_total == Str(<<"^i", "~t", "~o", "~g", "~o", " ", "~o", "~f", "~e", "~r", "~t">>)
C_warm == Str(<<"Z", "v", "o", "n", "o", "b", "o", "t">>)
C_title == Str(<<"P", "l", "a", "n", " ", "2", "0", "2", "4">>)

\* header rows: columns #, name, time slots, totals
H_two == <<C_no, C_fio, C_time1, C_time2, C_total>>
H_one == <<C_no, C_fio, C_time1>>
H_first == <<C_time1, C_time2, C_warm>>

\* n rows of preamble
TitleRows(n) == [k \in 1..n |-> <<C_title>>]

\* what lies at and above the header row: the header first, under a
\* preamble, none at all, in the last scanned row, and past the scanned rows
Tops ==
    { <<H_two>>,
      <<H_first>>,
      <<<<C_title>>, H_two>>,
      <<<<C_total, C_title>>, H_one>>,
      <<<<C_title>>>>,
      TitleRows(HeaderScanRows - 1) \o <<H_one>>,
      TitleRows(HeaderScanRows) \o <<H_one>> }

DataRows ==
    { <<Blank, C_date1, Num(3), Blank, Num(5)>>,
      <<C_date1, C_date1, Blank, Blank, C_abc>>,
      <<Blank, C_date2, Blank, Num(4), C_comma>>,
      <<Num(1), C_ivan, Num(7), Num(2), Num(9)>>,
      <<Blank, C_ann, Blank, Num(1)>>,
      <<Num(2), C_space, Num(1), Num(1), Num(5)>>,
      <<Blank, C_tech_s, Num(4), Num(4), Num(8)>>,
      <<Num(3), C_tech_itogo, Num(1), Num(2), Num(3)>>,
      <<Blank, C_sentinel, Num(6), Num(2)>>,
      <<Blank, C_baddate, Num(1), Num(1), Num(1)>> }

MaxDataRows == 3

RowSeqs == UNION {[1..n -> DataRows] : n \in 0..MaxDataRows}

Grids == {top \o rows : top \in Tops, rows \in RowSeqs}

(***************************************************************************)
(* The invocations of main() (lines 264-354) and what they share: the      *)
(* lock file and the two spreadsheets.                                     *)
(***************************************************************************)
NumProcs == 2
Procs == 1..NumProcs

NoLock == 0

WORK_START_HOUR == 10
WORK_END_HOUR == 22

\* mutant: the end hour belongs to the window
in_work_window_EndInclusive(d) == WORK_START_HOUR <= d.hour /\ d.hour <= WORK_END_HOUR

\* line 33
in_work_window(d) == WORK_START_HOUR <= d.hour /\ d.hour < WORK_END_HOUR

months ==
    << <<"J", "a", "n", "u", "a", "r", "y">>,
       <<"F", "e", "b", "r", "u", "a", "r", "y">>,
       <<"M", "a", "r", "c", "h">>,
       <<"A", "p", "r", "i", "l">>,
       <<"M", "a", "y">>,
       <<"J", "u", "n", "e">>,
       <<"J", "u", "l", "y">>,
       <<"A", "u", "g", "u", "s", "t">>,
       <<"S", "e", "p", "t", "e", "m", "b", "e", "r">>,
       <<"O", "c", "t", "o", "b", "e", "r">>,
       <<"N", "o", "v", "e", "m", "b", "e", "r">>,
       <<"D", "e", "c", "e", "m", "b", "e", "r">> >>

\* lines 36-41
current_month_name(d) == months[d.month]

\* f"DB_{sheet_name}"
DbName(sheet_name) == <<"D", "B", "_">> \o sheet_name

\* a sheet of the target spreadsheet
NoSheet == [exists |-> FALSE, rows |-> <<>>]
Sheet(rows) == [exists |-> TRUE, rows |-> rows]

\* lines 118-119, as the set of titles
SheetTitles(d) == {t \in DOMAIN d : d[t].exists}

\* a cell is empty for the API when it is missing or ""
RowHasA(row) == Len(row) >= 1 /\ row[1] # Blank

\* lines 135-137: values of A:A end at the last row with a value in column A
sheet_last_row_estimate(d, title) ==
    LET rows == d[title].rows
        filled == {r \in 1..Len(rows) : RowHasA(rows[r])}
    IN  IF filled = {} THEN 0 ELSE CHOOSE r \in filled : \A q \in filled : q <= r

\* mutant: a header-only table counts as filled
should_sync_sheet_HeaderOnlyIsData(d, sheet_name, current_month) ==
    LET db_name == DbName(sheet_name)
    IN  IF db_name \notin SheetTitles(d) THEN TRUE
        ELSE IF Contains(sheet_name, current_month) THEN TRUE
        ELSE sheet_last_row_estimate(d, db_name) < 1

\* lines 264-273
should_sync_sheet(d, sheet_name, current_month) ==
    LET db_name == DbName(sheet_name)
        exists == db_name \in SheetTitles(d)
    IN  IF ~exists THEN TRUE
        ELSE IF Contains(sheet_name, current_month) THEN TRUE
        ELSE sheet_last_row_estimate(d, db_name) <= 1

\* lines 140-149: the names in rows k.. of the settings column
RECURSIVE NamesFrom(_, _)
NamesFrom(values, k) ==
    IF k > Len(values) THEN <<>>
    ELSE LET r == values[k]
             name == IF r = <<>> THEN <<>> ELSE Strip(PyStr(r[1]))
         IN  (IF name # <<>> THEN <<name>> ELSE <<>>) \o NamesFrom(values, k + 1)

get_settings_sheet_names(values) == NamesFrom(values, 1)

\* lines 91-98 on the source spreadsheet: no values for a sheet that holds none
ReadSource(src, sheet_name) ==
    IF sheet_name \in DOMAIN src THEN src[sheet_name] ELSE <<>>

\* mutant: the err of build_db_result is not looked at
SkipReason_ErrIgnored(source_values) ==
    IF source_values = <<>> THEN "empty" ELSE "none"

\* lines 280-287: why sync_one returns early, or "none"
SkipReason(source_values) ==
    IF source_values = <<>> THEN "empty"
    ELSE IF build_db_result(source_values).err # None THEN "header"
    ELSE "none"

\* lines 122-132
ensure_sheet_exists(d, title) ==
    IF title \in SheetTitles(d) THEN d ELSE [d EXCEPT ![title] = Sheet(<<>>)]

\* lines 44-49: the column letters of column number n
Letters ==
    <<"A", "B", "C", "D", "E", "F", "G", "H", "I", "J", "K", "L", "M",
      "N", "O", "P", "Q", "R", "S", "T", "U", "V", "W", "X", "Y", "Z">>

RECURSIVE col_to_a1(_)
col_to_a1(n) ==
    IF n = 0 THEN <<>>
    ELSE col_to_a1((n - 1) \div 26) \o <<Letters[((n - 1) % 26) + 1]>>

\* lines 291-294: the range A1:<end_col><rows> the table is written to
write_range(values) ==
    [end_col |-> col_to_a1(Len(values[1])), rows |-> Len(values)]

\* mutant: the sheet is not cleared before it is written
clear_sheet_Noop(d, title) == d

\* mutant: the clear is not confined to the sheet being synced
clear_sheet_AllSheets(d, title) ==
    [t \in DOMAIN d |-> IF d[t].exists \/ t = title THEN Sheet(<<>>) ELSE d[t]]

\* lines 101-106
clear_sheet(d, title) == [d EXCEPT ![title] = Sheet(<<>>)]

\* one row of an update: the written cells replace, cells to the right stay
OverlayRow(old, new) ==
    [c \in 1..Max(Len(old), Len(new)) |-> IF c <= Len(new) THEN new[c] ELSE old[c]]

\* lines 109-115 with the range A1:<end> of lines 291-294, which fits values
write_values(d, title, values) ==
    LET old == d[title].rows
        rowOf(r) == IF r <= Len(old) THEN old[r] ELSE <<>>
        new == [r \in 1..Max(Len(old), Len(values)) |->
                   IF r <= Len(values) THEN OverlayRow(rowOf(r), values[r])
                   ELSE old[r]]
    IN  [d EXCEPT ![title] = Sheet(new)]

\* mutant: the file is opened without O_EXCL
acquire_lock_NoExcl(l) == TRUE

\* lines 302-309: os.open with O_CREAT | O_EXCL succeeds iff the file is absent
acquire_lock(l) == l = NoLock

\* lines 312-316: the file is removed, whoever wrote it
release_lock(l) == NoLock

\* mutant: every exception is reported as an internal error
ExitCode_AllOne(kind) == 1

\* lines 347-352: the return value for an exception
ExitCode(kind) == IF kind = "http" THEN 2 ELSE 1

\* mutant: no finally clause
AfterRaise_NoFinally == "done"

\* where control goes when an exception is raised inside the try (line 353)
AfterRaise == "finally"

\* mutant: a [SKIP] ends the run
AfterSkip_Abort == "finally"

\* where control goes when sync_one returns early (lines 282, 287)
AfterSkip == "loop"

\* mutant: the run goes on without the marker
AfterLockHeld_Proceed == "get_service"

\* where control goes when acquire_lock fails (line 327)
AfterLockHeld == "done"

(***************************************************************************)
(* Inputs of the invocations.                                              *)
(***************************************************************************)
N_q1 == <<"Q", "1">>
N_may == <<"M", "a", "y">>
N_bad == <<"B", "a", "d">>
SheetNames == {N_q1, N_may, N_bad}
Titles == {DbName(n) : n \in SheetNames}

G_q1 == << <<C_fio, C_time1>>, <<C_date1>>, <<C_ivan, Num(7)>> >>
G_may == << <<C_fio, C_time1, C_total>>, <<C_date1, Num(3), Num(5)>> >>
G_nohdr == << <<C_title>> >>

\* the source spreadsheet: every sheet present, one without a header row
SourceFull ==
    [n \in SheetNames |->
        IF n = N_q1 THEN G_q1 ELSE IF n = N_may THEN G_may ELSE G_nohdr]

\* the source spreadsheet: one sheet empty and one missing
SourcePartial == [n \in {N_q1, N_may} |-> IF n = N_q1 THEN G_q1 ELSE <<>>]

OldRecord == <<C_date1, C_ivan, C_time2, Num(1), Num(0), Num(0), Num(0), Num(0)>>
\* an older, larger table, with a note someone typed next to its last row
T_old == <<ResultHeader, OldRecord, OldRecord \o <<C_abc>> >>

\* the target spreadsheet: no DB_ sheet yet
DestNew == [t \in Titles |-> NoSheet]

\* the target spreadsheet after earlier runs: one sheet header-only, the others full
DestOld ==
    [t \in Titles |->
        IF t = DbName(N_bad) THEN Sheet(<<ResultHeader>>) ELSE Sheet(T_old)]

\* the two spreadsheets as a run may find them
Spreadsheets ==
    { [src |-> SourceFull, dst |-> DestNew],
      [src |-> SourceFull, dst |-> DestOld],
      [src |-> SourcePartial, dst |-> DestOld] }

\* Settings!A2:A
SettingsInputs ==
    { <<>>,
      << <<C_space>>, <<>> >>,
      << <<Str(N_bad)>>, <<>>, <<Str(<<" ">> \o N_q1 \o <<" ">>)>>, <<Str(N_may)>> >>,
      << <<Str(N_q1)>>, <<Str(N_may)>>, <<Str(N_q1)>> >> }

\* now_local(): hour and month
DtInputs ==
    { [hour |-> 9, month |-> 5], [hour |-> 10, month |-> 5],
      [hour |-> 21, month |-> 6], [hour |-> 22, month |-> 6] }

\* dt of an invocation that has not read the clock, or has returned
NoDt == [hour |-> 0, month |-> 1]

Running == {"acquire", "get_service", "settings", "loop", "sync_read",
            "sync_ensure", "sync_clear", "sync_write", "finally"}

\* the positions at which a remote call is made, and the call made first there
RemoteCall ==
    [settings |-> "read_settings", loop |-> "metadata", sync_read |-> "read_source",
     sync_ensure |-> "metadata", sync_clear |-> "clear", sync_write |-> "write"]
RemotePcs == DOMAIN RemoteCall

(***************************************************************************)
(* main(), one action per step between remote calls.                       *)
(***************************************************************************)
\* lines 320-323
Start(p) ==
    /\ pc[p] = "idle"
    /\ \E d \in DtInputs :
        /\ dt' = [dt EXCEPT ![p] = d]
        /\ IF ~in_work_window(d)
           THEN /\ rc' = [rc EXCEPT ![p] = 0]
                /\ pc' = [pc EXCEPT ![p] = "done"]
           ELSE /\ pc' = [pc EXCEPT ![p] = "acquire"]
                /\ UNCHANGED rc
    /\ UNCHANGED <<lock, dest, source, settings, names, idx, built, bvars, hvars>>

\* lines 325-327
Acquire(p) ==
    /\ pc[p] = "acquire"
    /\ IF acquire_lock(lock)
       THEN /\ lock' = p
            /\ pc' = [pc EXCEPT ![p] = "get_service"]
            /\ dest0' = dest
            /\ UNCHANGED <<rc, dt>>
       ELSE /\ rc' = [rc EXCEPT ![p] = 0]
            /\ pc' = [pc EXCEPT ![p] = AfterLockHeld]
            /\ dt' = [dt EXCEPT ![p] = NoDt]
            /\ UNCHANGED <<lock, dest0>>
    /\ UNCHANGED <<dest, source, settings, names, idx, built, bvars,
                   calls, raised, evaluated, skipped, pending>>

\* line 330
GetService(p) ==
    /\ pc[p] = "get_service"
    /\ pc' = [pc EXCEPT ![p] = "settings"]
    /\ UNCHANGED <<lock, dest, source, settings, dt, names, idx, built, rc, bvars, hvars>>

\* lines 331-335
ReadSettings(p) ==
    /\ pc[p] = "settings"
    /\ calls' = [calls EXCEPT ![p] = @ \cup {"read_settings"}]
    /\ names' = [names EXCEPT ![p] = get_settings_sheet_names(settings)]
    /\ IF names'[p] = <<>>
       THEN /\ rc' = [rc EXCEPT ![p] = 0]
            /\ pc' = [pc EXCEPT ![p] = "finally"]
            /\ UNCHANGED idx
       ELSE /\ idx' = [idx EXCEPT ![p] = 1]
            /\ pc' = [pc EXCEPT ![p] = "loop"]
            /\ UNCHANGED rc
    /\ UNCHANGED <<lock, dest, source, settings, dt, built, bvars,
                   raised, evaluated, skipped, pending, dest0>>

\* lines 338-343: one evaluation of should_sync_sheet
ShouldSync(p) ==
    /\ pc[p] = "loop"
    /\ idx[p] <= Len(names[p])
    /\ LET name == names[p][idx[p]]
           exists == DbName(name) \in SheetTitles(dest)
           cm == current_month_name(dt[p])
       IN  /\ calls' = [calls EXCEPT ![p] =
                  @ \cup {"metadata"}
                    \cup (IF exists /\ ~Contains(name, cm) THEN {"read_dest"} ELSE {})]
           /\ evaluated' = [evaluated EXCEPT ![p] = @ \cup {idx[p]}]
           /\ IF should_sync_sheet(dest, name, cm)
              THEN /\ pc' = [pc EXCEPT ![p] = "sync_read"]
                   /\ UNCHANGED idx
              ELSE /\ idx' = [idx EXCEPT ![p] = @ + 1]
                   /\ UNCHANGED pc
    /\ UNCHANGED <<lock, dest, source, settings, dt, names, built, rc, bvars,
                   raised, skipped, pending, dest0>>

\* line 345
LoopEnd(p) ==
    /\ pc[p] = "loop"
    /\ idx[p] > Len(names[p])
    /\ rc' = [rc EXCEPT ![p] = 0]
    /\ pc' = [pc EXCEPT ![p] = "finally"]
    /\ UNCHANGED <<lock, dest, source, settings, dt, names, idx, built, bvars, hvars>>

\* lines 277-287
SyncRead(p) ==
    /\ pc[p] = "sync_read"
    /\ calls' = [calls EXCEPT ![p] = @ \cup {"read_source"}]
    /\ LET source_values == ReadSource(source, names[p][idx[p]])
       IN  IF SkipReason(source_values) # "none"
           THEN /\ skipped' = [skipped EXCEPT ![p] = @ \cup {idx[p]}]
                /\ pc' = [pc EXCEPT ![p] = AfterSkip]
                /\ idx' = [idx EXCEPT ![p] = @ + 1]
                /\ UNCHANGED built
           ELSE /\ built' = [built EXCEPT ![p] = build_db_result(source_values).result]
                /\ pc' = [pc EXCEPT ![p] = "sync_ensure"]
                /\ UNCHANGED <<skipped, idx>>
    /\ UNCHANGED <<lock, dest, source, settings, dt, names, rc, bvars,
                   raised, evaluated, pending, dest0>>

\* line 289
SyncEnsure(p) ==
    /\ pc[p] = "sync_ensure"
    /\ LET db_name == DbName(names[p][idx[p]])
       IN  /\ calls' = [calls EXCEPT ![p] =
                  @ \cup {"metadata"}
                    \cup (IF db_name \in SheetTitles(dest) THEN {} ELSE {"add_sheet"})]
           /\ dest' = ensure_sheet_exists(dest, db_name)
    /\ pc' = [pc EXCEPT ![p] = "sync_clear"]
    /\ UNCHANGED <<lock, source, settings, dt, names, idx, built, rc, bvars,
                   raised, evaluated, skipped, pending, dest0>>

\* line 296
SyncClear(p) ==
    /\ pc[p] = "sync_clear"
    /\ LET db_name == DbName(names[p][idx[p]])
       IN  /\ dest' = clear_sheet(dest, db_name)
           /\ pending' = [pending EXCEPT ![p] = @ \cup {db_name}]
    /\ calls' = [calls EXCEPT ![p] = @ \cup {"clear"}]
    /\ pc' = [pc EXCEPT ![p] = "sync_write"]
    /\ UNCHANGED <<lock, source, settings, dt, names, idx, built, rc, bvars,
                   raised, evaluated, skipped, dest0>>

\* lines 297-299, and the loop moves on
SyncWrite(p) ==
    /\ pc[p] = "sync_write"
    /\ LET db_name == DbName(names[p][idx[p]])
       IN  /\ dest' = write_values(dest, db_name, built[p])
           /\ pending' = [pending EXCEPT ![p] = @ \ {db_name}]
    /\ calls' = [calls EXCEPT ![p] = @ \cup {"write"}]
    /\ idx' = [idx EXCEPT ![p] = @ + 1]
    /\ pc' = [pc EXCEPT ![p] = "loop"]
    /\ UNCHANGED <<lock, source, settings, dt, names, built, rc, bvars,
                   raised, evaluated, skipped, dest0>>

\* lines 347-352: a remote call raises HttpError or another exception
\* (a transport error); nothing was changed by the call
RemoteFails(p) ==
    /\ pc[p] \in RemotePcs
    /\ \E kind \in {"http", "other"} :
        /\ raised' = [raised EXCEPT ![p] = kind]
        /\ rc' = [rc EXCEPT ![p] = ExitCode(kind)]
    /\ calls' = [calls EXCEPT ![p] = @ \cup {RemoteCall[pc[p]]}]
    /\ pc' = [pc EXCEPT ![p] = AfterRaise]
    /\ UNCHANGED <<lock, dest, source, settings, dt, names, idx, built, bvars,
                   evaluated, skipped, pending, dest0>>

\* lines 350-352: get_service raises (credentials missing or malformed)
ServiceFails(p) ==
    /\ pc[p] = "get_service"
    /\ raised' = [raised EXCEPT ![p] = "other"]
    /\ rc' = [rc EXCEPT ![p] = ExitCode("other")]
    /\ pc' = [pc EXCEPT ![p] = AfterRaise]
    /\ UNCHANGED <<lock, dest, source, settings, dt, names, idx, built, bvars,
                   calls, evaluated, skipped, pending, dest0>>

\* lines 353-354, then main returns: its locals are gone, and the history
\* of the invocation ends with it
Release(p) ==
    /\ pc[p] = "finally"
    /\ lock' = release_lock(lock)
    /\ pc' = [pc EXCEPT ![p] = "done"]
    /\ dt' = [dt EXCEPT ![p] = NoDt]
    /\ names' = [names EXCEPT ![p] = <<>>]
    /\ idx' = [idx EXCEPT ![p] = 0]
    /\ built' = [built EXCEPT ![p] = None]
    /\ calls' = [calls EXCEPT ![p] = {}]
    /\ raised' = [raised EXCEPT ![p] = "none"]
    /\ evaluated' = [evaluated EXCEPT ![p] = {}]
    /\ skipped' = [skipped EXCEPT ![p] = {}]
    /\ pending' = [pending EXCEPT ![p] = {}]
    /\ UNCHANGED <<dest, source, settings, rc, bvars, dest0>>

\* the process is terminated (SIGKILL): no finally clause runs, and the
\* marker and the spreadsheets stay as they are
Kill(p) ==
    /\ pc[p] \in Running
    /\ pc' = [pc EXCEPT ![p] = "killed"]
    /\ dt' = [dt EXCEPT ![p] = NoDt]
    /\ UNCHANGED <<lock, dest, source, settings, names, idx, built, rc, bvars, hvars>>

\* the marker of a killed invocation is removed out-of-band (by an operator
\* or a reboot that empties the directory of LOCK_FILE); what the model kept
\* of the dead invocation's run goes with it
RemoveMarker ==
    /\ lock # NoLock
    /\ pc[lock] = "killed"
    /\ lock' = NoLock
    /\ names' = [names EXCEPT ![lock] = <<>>]
    /\ idx' = [idx EXCEPT ![lock] = 0]
    /\ built' = [built EXCEPT ![lock] = None]
    /\ calls' = [calls EXCEPT ![lock] = {}]
    /\ raised' = [raised EXCEPT ![lock] = "none"]
    /\ evaluated' = [evaluated EXCEPT ![lock] = {}]
    /\ skipped' = [skipped EXCEPT ![lock] = {}]
    /\ pending' = [pending EXCEPT ![lock] = {}]
    /\ dest0' = dest
    /\ UNCHANGED <<dest, source, settings, pc, dt, rc, bvars>>

(***************************************************************************)
(* Specifications.                                                         *)
(***************************************************************************)
BuildIdle ==
    /\ data = <<>>
    /\ header = EmptyInfo
    /\ bpc = "idle"
    /\ i = 0
    /\ current_date = None
    /\ row_owner = None
    /\ result = None
    /\ err = None

MainStart ==
    /\ lock = NoLock
    /\ pc = [p \in Procs |-> "idle"]
    /\ dt = [p \in Procs |-> NoDt]
    /\ names = [p \in Procs |-> <<>>]
    /\ idx = [p \in Procs |-> 0]
    /\ built = [p \in Procs |-> None]
    /\ rc = [p \in Procs |-> -1]
    /\ calls = [p \in Procs |-> {}]
    /\ raised = [p \in Procs |-> "none"]
    /\ evaluated = [p \in Procs |-> {}]
    /\ skipped = [p \in Procs |-> {}]
    /\ pending = [p \in Procs |-> {}]
    /\ dest0 = dest

Init ==
    /\ BuildIdle
    /\ \E w \in Spreadsheets : source = w.src /\ dest = w.dst
    /\ settings \in SettingsInputs
    /\ MainStart

Next ==
    \E p \in Procs :
        \/ Start(p)
        \/ Acquire(p)
        \/ GetService(p)
        \/ ServiceFails(p)
        \/ ReadSettings(p)
        \/ ShouldSync(p)
        \/ LoopEnd(p)
        \/ SyncRead(p)
        \/ SyncEnsure(p)
        \/ SyncClear(p)
        \/ SyncWrite(p)
        \/ RemoteFails(p)
        \/ Release(p)
        \/ Kill(p)

Spec == Init /\ [][Next]_vars

\* the invocations, with stale markers removed out-of-band
NextStale == Next \/ RemoveMarker

SpecStale == Init /\ [][NextStale]_vars

\* the parser alone, on every input grid
InitBuild ==
    /\ data \in Grids
    /\ header = EmptyInfo
    /\ bpc = "start"
    /\ i = 0
    /\ current_date = None
    /\ row_owner = None
    /\ result = <<>>
    /\ err = None
    /\ source = SourceFull
    /\ dest = DestNew
    /\ settings = <<>>
    /\ MainStart

NextBuild == BuildStart \/ BuildRow \/ BuildReturn

SpecBuild == InitBuild /\ [][NextBuild]_vars

(***************************************************************************)
(* Properties of the parser run.                                           *)
(***************************************************************************)
\* the step of BuildRow that handles row i
RowStep == bpc = "rows" /\ i' = i + 1

\* the records the step appends
NewRecords == SubSeq(result', Len(result) + 1, Len(result'))

\* the manager-column cell of the grid's row r, "" when the row is too short
MgrCellAt(r) ==
    IF header.managerCol + 1 <= Len(data[r + 1])
    THEN data[r + 1][header.managerCol + 1] ELSE Blank

\* the rows below the header, down to r, whose manager cell is a date
DateRowsTo(r) ==
    {q \in (header.rowIdx + 1)..r : is_valid_date_cell(MgrCellAt(q))}

LastOf(S) == CHOOSE q \in S : \A x \in S : x <= q

\* the row's cell in 0-based column c, 0 when it is empty or absent
CellOrZero(row, c) ==
    IF c + 1 <= Len(row) /\ row[c + 1] # Blank THEN row[c + 1] ELSE Num(0)

\* C6: every record emitted for a row carries as Date the most recent
\* manager-column cell, at or above that row and below the header row, that
\* is_valid_date_cell accepts; a row above the first such cell emits nothing.
C6_DateIsMostRecent ==
    [][RowStep =>
        \A k \in 1..Len(NewRecords) :
            /\ DateRowsTo(i) # {}
            /\ NewRecords[k][1] = MgrCellAt(LastOf(DateRowsTo(i)))]_vars

\* a finished table with records under two different dates
C6_Witness ==
    /\ bpc = "done"
    /\ err = None
    /\ Len(result) >= 3
    /\ result[2][1] # result[Len(result)][1]

\* C7: a row classified DEPARTMENT_TOTAL while a date is set emits exactly
\* one record, whatever the number of time columns, with Time_Interval
\* ALL_DAY and Offers the row's cell in the first time column (0 if none).
C7_DepartmentTotalOnce ==
    [][(RowStep /\ row_owner' = Str(T_DEPARTMENT_TOTAL) /\ Truthy(current_date')) =>
        /\ Len(NewRecords) = 1
        /\ NewRecords[1][2] = Str(T_DEPARTMENT_TOTAL)
        /\ NewRecords[1][3] = Str(T_ALL_DAY)
        /\ NewRecords[1][4] = CellOrZero(data[i + 1], header.timeCols[1])]_vars

\* a department-total row has been handled under a header with two time columns
C7_Witness ==
    /\ bpc = "rows"
    /\ Len(header.timeCols) >= 2
    /\ row_owner = Str(T_DEPARTMENT_TOTAL)
    /\ Truthy(current_date)
    /\ result[Len(result)][3] = Str(T_ALL_DAY)

\* C8: a row classified as a named manager while a date is set emits one
\* record per time column, in timeCols order: Manager is the trimmed
\* manager cell, Time_Interval the header label of that column, Offers the
\* row's own cell in that column (0 if empty or absent).
C8_ManagerPerTimeColumn ==
    [][(RowStep /\ row_owner' # None /\ row_owner' # Str(T_DEPARTMENT_TOTAL)
                /\ Truthy(current_date')) =>
        /\ Len(NewRecords) = Len(header.timeCols)
        /\ \A k \in 1..Len(header.timeCols) :
            LET c == header.timeCols[k]
            IN  /\ NewRecords[k][2] = Str(Strip(PyStr(MgrCellAt(i))))
                /\ NewRecords[k][3] = Str(PyStr(data[header.rowIdx + 1][c + 1]))
                /\ NewRecords[k][4] = CellOrZero(data[i + 1], c)]_vars

\* a named-manager row has been handled under a header with two time
\* columns, and its manager cell needed trimming
C8_Witness ==
    /\ bpc = "rows"
    /\ Len(header.timeCols) >= 2
    /\ row_owner # None /\ row_owner # Str(T_DEPARTMENT_TOTAL)
    /\ Str(row_owner.v) # MgrCellAt(i - 1)
    /\ Len(result) >= 3
    /\ result[Len(result)][2] = row_owner
    /\ result[Len(result) - 1][2] = row_owner
    /\ result[Len(result)][3] # result[Len(result) - 1][3]

\* the manager cell of row r, trimmed and lower-cased, is a forbidden word
TechnicalRow(r) == Strip(Lower(PyStr(MgrCellAt(r)))) \in forbidden

\* C9: a row whose manager cell, trimmed and lower-cased, is a forbidden
\* technical word emits no record, whatever its other cells hold and whether
\* or not a date is set.
C9_TechnicalRowEmitsNothing ==
    [][(RowStep /\ TechnicalRow(i)) => result' = result]_vars

\* a technical-word row with data has been handled while a date was set
C9_Witness ==
    /\ bpc = "rows"
    /\ i > header.rowIdx + 1
    /\ TechnicalRow(i - 1)
    /\ MgrCellAt(i - 1).v \notin forbidden
    /\ Truthy(current_date)
    /\ has_data(data[i], header)

(***************************************************************************)
(* Properties of the invocations.                                          *)
(***************************************************************************)
\* between a successful acquire_lock and release_lock
Section == {"get_service", "settings", "loop", "sync_read",
            "sync_ensure", "sync_clear", "sync_write", "finally"}

InSection(p) == pc[p] \in Section

\* C1: at most one invocation is between a successful acquire_lock and its
\* release_lock, and it is the one whose pid is in the marker; an invocation
\* that does not hold the marker has made no remote call (no sync).
C1_MutualExclusion ==
    /\ \A p, q \in Procs : (InSection(p) /\ InSection(q)) => p = q
    /\ \A p \in Procs : (InSection(p) \/ calls[p] # {}) => lock = p

\* one invocation is writing a sheet while another is about to test the marker
C1_Witness ==
    \E p, q \in Procs :
        /\ p # q
        /\ pc[p] = "sync_write"
        /\ pc[q] = "acquire"

\* C2: an invocation that has returned does not leave its marker behind,
\* on any return path; when no invocation was killed, the marker is absent
\* whenever no invocation is running.
C2_ReleasedOnReturn ==
    /\ \A p \in Procs : pc[p] = "done" => lock # p
    /\ (\A p \in Procs : pc[p] \in {"idle", "done"}) => lock = NoLock

\* every invocation has returned, one after an HttpError and one after
\* another exception
C2_Witness ==
    /\ \A p \in Procs : pc[p] = "done"
    /\ \E p, q \in Procs : rc[p] = 2 /\ rc[q] = 1

\* the sheet has a per-sheet structural error: its source sheet is missing
\* or empty, or its grid has no header row
Structural(sheet_name) ==
    \/ sheet_name \notin DOMAIN source
    \/ source[sheet_name] = <<>>
    \/ ~find_header_row_and_cols(source[sheet_name]).found

\* C3: a sheet with a structural error does not abort the batch: when the
\* run comes to its end without an exception, every configured sheet has
\* been evaluated by should_sync_sheet and the return value is 0; a skipped
\* sheet leaves the loop at the next position.
C3_SkipDoesNotAbort ==
    \A p \in Procs :
        /\ (pc[p] = "finally" /\ raised[p] = "none") =>
              /\ rc[p] = 0
              /\ evaluated[p] = 1..Len(names[p])
        /\ (pc[p] \in Section /\ skipped[p] # {}) =>
              /\ \A k \in skipped[p] : k \in evaluated[p]
              /\ raised[p] = "none" => \A k \in skipped[p] : k < idx[p]

\* a run that skipped its first sheet for a structural error, went on to
\* write a later sheet and ends with 0
C3_Witness ==
    \E p \in Procs :
        /\ pc[p] = "finally"
        /\ rc[p] = 0
        /\ 1 \in skipped[p]
        /\ Structural(names[p][1])
        /\ "write" \in calls[p]
        /\ evaluated[p] = 1..Len(names[p])

\* C4: the destination of a sheet whose source grid is empty or has no
\* header row is what it was when the run began: not created, not cleared,
\* not written.
C4_SkippedSheetUntouched ==
    \A p \in Procs :
        lock = p =>
            \A k \in 1..Len(names[p]) :
                dest[DbName(names[p][k])] # dest0[DbName(names[p][k])] =>
                    ~Structural(names[p][k])

\* sync_one has returned early for a sheet whose grid has no header row,
\* and the run went on to write another sheet
C4_Witness ==
    \E p \in Procs :
        /\ lock = p
        /\ \E k \in skipped[p] :
              /\ ReadSource(source, names[p][k]) # <<>>
              /\ ~find_header_row_and_cols(ReadSource(source, names[p][k])).found
        /\ "write" \in calls[p]

\* the positions whose sheet has not been reached: later than the position
\* being processed and not listed at or before it
Unreached(p) ==
    {k \in (idx[p] + 1)..Len(names[p]) :
        \A j \in 1..Min(idx[p], Len(names[p])) : names[p][j] # names[p][k]}

\* C5 as amended: at every point of a run, also after a kill or a failed
\* call, at most one destination sheet is cleared and not rewritten, the
\* destinations of the sheets not yet reached are as they were when the run
\* began, and the loop never stands at a sheet with a clear outstanding.
C5_OneSheetAtATime ==
    \A p \in Procs :
        lock = p =>
            /\ Cardinality(pending[p]) <= 1
            /\ \A k \in Unreached(p) :
                   dest[DbName(names[p][k])] = dest0[DbName(names[p][k])]
            /\ pc[p] = "loop" => pending[p] = {}

\* C5 as stated: the destination of every sheet listed later than the one
\* being processed is as it was when the run began.
C5_LaterSheetsUnchanged ==
    \A p \in Procs :
        lock = p =>
            \A k \in (idx[p] + 1)..Len(names[p]) :
                dest[DbName(names[p][k])] = dest0[DbName(names[p][k])]

\* a run was killed between clear and write, with a later sheet still to come
C5_Witness ==
    \E p \in Procs :
        /\ lock = p
        /\ pc[p] = "killed"
        /\ Cardinality(pending[p]) = 1
        /\ Unreached(p) # {}

\* the name holds the month's name
NameHasMonth(n, m) ==
    \E k \in 0..(Len(n) - Len(months[m])) :
        \A j \in 1..Len(months[m]) : n[k + j] = months[m][j]

\* C10: should_sync_sheet is true when DB_{name} does not exist, true when
\* the name holds the current month, true when DB_{name} has at most one
\* row, and false in every other case.
C10_ShouldSyncCases ==
    \A n \in SheetNames : \A m \in 1..Len(months) :
        should_sync_sheet(dest, n, months[m]) =
            (\/ ~dest[DbName(n)].exists
             \/ NameHasMonth(n, m)
             \/ Len(dest[DbName(n)].rows) <= 1)

\* a run has found no need to sync its first sheet, and the destination
\* holds a header-only sheet as well
C10_Witness ==
    \E p \in Procs :
        /\ pc[p] = "loop"
        /\ idx[p] = 2
        /\ evaluated[p] = {1}
        /\ "read_source" \notin calls[p]
        /\ \E t \in Titles : dest[t].exists /\ Len(dest[t].rows) = 1

\* the step by which invocation p returns from main()
Returns(p) == pc[p] # "done" /\ pc'[p] = "done"

\* C11: the value main() returns is 2 when an HttpError was raised during
\* the run, 1 when another exception was raised, and 0 in every other case:
\* outside the work window, marker already present, empty settings, and the
\* end of the loop.
C11_ExitCodes ==
    [][\A p \in Procs :
          Returns(p) =>
              rc'[p] = (IF raised[p] = "http" THEN 2
                        ELSE IF raised[p] = "other" THEN 1
                        ELSE 0)]_vars

\* one invocation is about to return 2 after an HttpError of the write
\* call, another has returned 0 from inside the work window
C11_Witness ==
    \E p, q \in Procs :
        /\ pc[p] = "finally" /\ raised[p] = "http" /\ rc[p] = 2
        /\ "write" \in calls[p]
        /\ pc[q] = "done" /\ rc[q] = 0 /\ dt[q] = NoDt

\* C12: an invocation whose local hour h does not satisfy
\* WORK_START_HOUR <= h < WORK_END_HOUR returns 0 at once: the marker, the
\* spreadsheets and the record of its remote calls are as they were, and
\* only an invocation with h inside the window goes on to acquire_lock.
C12_OutsideWindowNoOp ==
    [][\A p \in Procs :
          (pc[p] = "idle" /\ pc'[p] # "idle") =>
              IF WORK_START_HOUR <= dt'[p].hour /\ dt'[p].hour < WORK_END_HOUR
              THEN pc'[p] = "acquire"
              ELSE /\ pc'[p] = "done"
                   /\ rc'[p] = 0
                   /\ calls'[p] = {}
                   /\ UNCHANGED <<lock, dest, source, settings>>]_vars

\* an invocation started at the end hour has returned 0 while nobody holds
\* the marker and another invocation has not started yet
C12_Witness ==
    \E p, q \in Procs :
        /\ pc[p] = "done" /\ dt[p].hour = WORK_END_HOUR /\ rc[p] = 0
        /\ pc[q] = "idle"
        /\ lock = NoLock

\* the step by which sync_one completes for the sheet at the loop position
SyncCompletes(p) == pc[p] = "sync_write" /\ pc'[p] = "loop"

\* C13: when sync_one completes for a sheet, DB_{name} holds exactly the
\* table that was built: the fixed header row, then the records, every row
\* 8 cells wide, written to A1:H{rowCount}; nothing of the table that was
\* there before is left.
C13_DestinationReplaced ==
    [][\A p \in Procs :
          SyncCompletes(p) =>
              LET t == DbName(names[p][idx[p]])
              IN  /\ dest'[t] = Sheet(built[p])
                  /\ built[p][1] = ResultHeader
                  /\ \A r \in 1..Len(built[p]) : Len(built[p][r]) = 8
                  /\ write_range(built[p]) =
                         [end_col |-> <<"H">>, rows |-> Len(built[p])]]_vars

\* a run has replaced a destination table by one with fewer rows
C13_Witness ==
    \E p \in Procs :
        /\ lock = p
        /\ pc[p] = "loop"
        /\ "write" \in calls[p]
        /\ \E k \in 1..Len(names[p]) :
              LET t == DbName(names[p][k])
              IN  /\ k < idx[p]
                  /\ dest[t].rows # <<>>
                  /\ Len(dest[t].rows) < Len(dest0[t].rows)

(***************************************************************************)
(* Properties of the header locator, on the parser run.                    *)
(***************************************************************************)
\* the cell's text holds ':' and '-' and a digit
TimeCell(cell) ==
    LET s == PyStr(cell)
    IN  /\ \E k \in 1..Len(s) : s[k] = ":"
        /\ \E k \in 1..Len(s) : s[k] = "-"
        /\ \E k \in 1..Len(s) : s[k] \in Digits

\* the 0-based indices r < min(10, rowCount) of the rows with a time cell
TimeRowsOf(grid) ==
    {r \in 0..(Len(grid) - 1) :
        /\ r < 10
        /\ \E c \in 1..Len(grid[r + 1]) : TimeCell(grid[r + 1][c])}

LeastOf(S) == CHOOSE q \in S : \A x \in S : q <= x

\* the grid with every row below 0-based row r replaced by a header row
HeadersBelow(grid, r) ==
    [k \in 1..Len(grid) |-> IF k <= r + 1 THEN grid[k] ELSE H_two]

\* the header locator has run on the grid
Located == bpc \in {"rows", "done"}

\* C14: rowIdx is the smallest row index r < min(10, rowCount) whose row
\* holds a time-interval header cell, and found is false when there is no
\* such row; rowIdx stays the same when the rows below it are changed, here
\* into rows that would qualify as header rows themselves.
C14_HeaderIsFirstTimeRow ==
    Located =>
        /\ header.found = (TimeRowsOf(data) # {})
        /\ header.found =>
              /\ header.rowIdx = LeastOf(TimeRowsOf(data))
              /\ find_header_row_and_cols(HeadersBelow(data, header.rowIdx)).rowIdx
                     = header.rowIdx
        /\ ~header.found => header.rowIdx = -1

\* no header was found in a grid whose row 10 holds time cells
C14_Witness ==
    /\ bpc = "done"
    /\ ~header.found
    /\ Len(data) > 10
    /\ \E c \in 1..Len(data[11]) : TimeCell(data[11][c])

\* the 0-based columns of the row whose cell is a time-interval header
TimeColsOf(row) == {c \in 0..(Len(row) - 1) : TimeCell(row[c + 1])}

\* C15: timeCols is non-empty exactly when found is true; when found,
\* timeCols lists the time-interval header columns of the header row, all of
\* them and no other, in increasing order, and managerCol is
\* max(0, timeCols[0] - 1).
C15_TimeColsAndManagerCol ==
    Located =>
        /\ (header.timeCols # <<>>) = header.found
        /\ header.found =>
              LET tc == header.timeCols
              IN  /\ {tc[k] : k \in 1..Len(tc)} = TimeColsOf(data[header.rowIdx + 1])
                  /\ \A k \in 1..(Len(tc) - 1) : tc[k] < tc[k + 1]
                  /\ header.managerCol = (IF tc[1] - 1 > 0 THEN tc[1] - 1 ELSE 0)

\* a header row with two time columns, the first of them in column 0, where
\* the manager column is clamped to 0
C15_Witness ==
    /\ bpc = "rows"
    /\ header.found
    /\ Len(header.timeCols) = 2
    /\ header.timeCols[1] = 0
    /\ header.managerCol = 0

(***************************************************************************)
(* Properties of the row classifier.                                       *)
(***************************************************************************)
\* safe_num of the row's cell in 0-based column c, 0 for an absent column
ColumnNum(row, c) ==
    IF c > -1 /\ c < Len(row) THEN safe_num(row[c + 1]) ELSE Zero

\* 'has data': safe_num of the total column > 0 or of the warm column > 0
RowHasData(row) ==
    \/ Positive(ColumnNum(row, header.totalCol))
    \/ Positive(ColumnNum(row, header.warmCol))

\* the owner of 0-based row r by the priority order (a) to (d), cur being
\* the date established by the rows above
OwnerByPriority(r, cur) ==
    LET cell == MgrCellAt(r)
        text == Strip(PyStr(cell))
    IN  IF is_valid_date_cell(cell) /\ RowHasData(data[r + 1])
        THEN Str(T_DEPARTMENT_TOTAL)
        ELSE IF text = <<>> /\ cur # None /\ RowHasData(data[r + 1])
        THEN Str(T_DEPARTMENT_TOTAL)
        ELSE IF text # <<>> /\ ~is_valid_date_cell(cell) /\ ~is_technical_word(cell)
        THEN Str(text)
        ELSE None

\* C16: the owner of a data row follows the priority order: (a) date cell
\* with data, (b) blank cell under an established date with data - both
\* DEPARTMENT_TOTAL -, (c) a non-blank cell that is no date and no technical
\* word - the trimmed text -, (d) no owner.  A row without owner, or before
\* any date, emits nothing and raises nothing; a date row becomes the
\* current date also when it has no data.
C16_OwnerPriority ==
    [][RowStep =>
        /\ row_owner' = OwnerByPriority(i, current_date)
        /\ (row_owner' = None \/ current_date' = None) => result' = result
        /\ is_valid_date_cell(MgrCellAt(i)) => current_date' = MgrCellAt(i)
        /\ ~is_valid_date_cell(MgrCellAt(i)) => current_date' = current_date
        /\ err' = None]_vars

\* a date row without data was handled: no owner, no record, and its date
\* is the current date for the rows below
C16_Witness ==
    /\ bpc = "rows"
    /\ i > header.rowIdx + 1
    /\ i < Len(data)
    /\ is_valid_date_cell(MgrCellAt(i - 1))
    /\ ~RowHasData(data[i])
    /\ row_owner = None
    /\ current_date = MgrCellAt(i - 1)
    /\ result = <<ResultHeader>>

(***************************************************************************)
(* The aggregate columns of the header locator.                            *)
(***************************************************************************)
\* the phrases of the four aggregate fields
PhrasesOf ==
    [totalCol |-> {P_total},
     warmCol |-> {P_zvonobot, P_total_warm, P_warm_leads},
     warmOffCol |-> {P_offers_from_warm, P_from_warm, P_quanta},
     convCol |-> {P_conv}]

\* the cell in 0-based column c of the row matches one of the phrases
CellMatches(row, c, phrases) ==
    /\ c < Len(row)
    /\ \E ph \in phrases : Contains(Lower(PyStr(row[c + 1])), ph)

\* C18: when a header row is found, each of totalCol, warmCol, warmOffCol
\* and convCol is -1 or the column of a cell of the header row that matches
\* the field's phrases; a cell of a row above the header row never decides
\* an aggregate column.
C18_AggregateColsFromHeaderRow ==
    (Located /\ header.found) =>
        \A f \in DOMAIN PhrasesOf :
            \/ header[f] = -1
            \/ CellMatches(data[header.rowIdx + 1], header[f], PhrasesOf[f])

(***************************************************************************)
(* The stale marker.                                                       *)
(***************************************************************************)
\* the marker was left by an invocation that was killed
Stale == lock # NoLock /\ pc[lock] = "killed"

\* C17: the marker of a killed invocation stays until it is removed
\* out-of-band: no step of an invocation takes it away.  While it is there,
\* no other invocation is between acquire and release, and an invocation
\* that reaches acquire_lock returns 0 without a remote call and without a
\* change of the destination.  The marker is only ever removed by a step of
\* the invocation that created it or out-of-band.
C17_StaleMarkerBlocks ==
    [][/\ (Stale /\ lock' # lock) => pc' = pc
       /\ Stale =>
             \A q \in Procs :
                 /\ q # lock => ~InSection(q)
                 /\ (pc[q] = "acquire" /\ pc'[q] \notin {"acquire", "killed"}) =>
                        /\ pc'[q] = "done"
                        /\ rc'[q] = 0
                        /\ calls'[q] = {}
                        /\ dest' = dest
                        /\ lock' = lock
       /\ \A q \in Procs :
             (lock # NoLock /\ lock' # lock /\ pc'[q] # pc[q]) => lock = q]_vars

\* an invocation was killed between clear and write and its marker is
\* still there; another one, inside the work window, is about to test it
C17_Witness ==
    \E p, q \in Procs :
        /\ lock = p
        /\ pc[p] = "killed"
        /\ pending[p] # {}
        /\ pc[q] = "acquire"
        /\ WORK_START_HOUR <= dt[q].hour /\ dt[q].hour < WORK_END_HOUR

====
